---- MODULE Spec2Model ----
(***************************************************************************)
(* A model of jsonlog/datastore.py: the atomic file layer (atomic_rename,  *)
(* DataStoreFS) and the versioned record store (DataStore.get / put), run  *)
(* by several independent callers against one store root.                  *)
(*                                                                         *)
(* The file system is a set of record directories (dirs), the files under  *)
(* them (files, keyed by <<id, file name>>) and the scratch directory      *)
(* __temp (temp_dir).  A file name is a sequence of one-character strings, *)
(* so that '%s-%d.json' formatting and the regular expression of get are   *)
(* computed on the characters as the code computes them.  Every call is    *)
(* split at its system calls, which are the points where callers           *)
(* interleave.                                                             *)
(***************************************************************************)
EXTENDS Integers, Sequences, FiniteSets, TLC

\* ------------------------------------------------------------------ bounds

\* Calls (get or put) the callers make, all together.
MaxCalls == 2

\* Ticks per second: strftime's "%S" is the finest field DATE_STRING keeps.
TicksPerSecond == 2

Writers == {"w1", "w2"}

\* "i1" has a record directory under the root, "i2" has none.
Ids == {"i1", "i2"}

TypeTags == {<<"a">>, <<"b">>}

\* The versions a caller writes into a record it builds itself.
ExplicitVersions == {-1, 1}

\* The values of os.name on the platforms the store runs on.  atomic_rename
\* raises NotImplementedError on every other one.
OsNames == {"posix", "nt"}

\* ------------------------------------------------- file names and records

Letters ==
    {"a", "b", "c", "d", "e", "f", "g", "h", "i", "j", "k", "l", "m",
     "n", "o", "p", "q", "r", "s", "t", "u", "v", "w", "x", "y", "z",
     "A", "B", "C", "D", "E", "F", "G", "H", "I", "J", "K", "L", "M",
     "N", "O", "P", "Q", "R", "S", "T", "U", "V", "W", "X", "Y", "Z"}

DigitChars == <<"0", "1", "2", "3", "4", "5", "6", "7", "8", "9">>

Digits == {DigitChars[i] : i \in 1..10}

DigitValue(c) == (CHOOSE i \in 1..10 : DigitChars[i] = c) - 1

RECURSIVE DecNat(_)
\* '%d' of a natural number: its decimal digits, most significant first.
DecNat(n) ==
    IF n < 10 THEN <<DigitChars[n + 1]>>
    ELSE DecNat(n \div 10) \o <<DigitChars[(n % 10) + 1]>>

\* '%d' of an integer.
Dec(n) == IF n < 0 THEN <<"-">> \o DecNat(0 - n) ELSE DecNat(n)

\* '%s-%d.json' % (type_tag, new_version_number)
FormatName(type_tag, n) ==
    type_tag \o <<"-">> \o Dec(n) \o <<".", "j", "s", "o", "n">>

RECURSIVE ParseNat(_)
\* int() of a non-empty string of digits.
ParseNat(ds) ==
    IF Len(ds) = 1 THEN DigitValue(ds[1])
    ELSE ParseNat(SubSeq(ds, 1, Len(ds) - 1)) * 10 + DigitValue(ds[Len(ds)])

\* The length of the longest prefix of name made of letters: [a-zA-Z]+
LetterPrefix(name) ==
    CHOOSE k \in 0..Len(name) :
        /\ \A i \in 1..k : name[i] \in Letters
        /\ (k < Len(name) => name[k + 1] \notin Letters)

\* A pattern that asks for no type tag: '^[a-zA-Z]*-([0-9]+).json$'.
ItemMatchNoTag(name) ==
    LET k == LetterPrefix(name)
        n == Len(name)
    IN  /\ n >= k + 7
        /\ name[k + 1] = "-"
        /\ \A i \in (k + 2)..(n - 5) : name[i] \in Digits
        /\ SubSeq(name, n - 3, n) = <<"j", "s", "o", "n">>

\* item_re.match(name): '^[a-zA-Z]+-([0-9]+).json$'.  The '.' of the pattern
\* is not escaped and matches any character.
ItemMatch(name) ==
    LET k == LetterPrefix(name)
        n == Len(name)
    IN  /\ k >= 1
        /\ n >= k + 7
        /\ name[k + 1] = "-"
        /\ \A i \in (k + 2)..(n - 5) : name[i] \in Digits
        /\ SubSeq(name, n - 3, n) = <<"j", "s", "o", "n">>

\* int(item_match.group(1))
ItemVersion(name) ==
    ParseNat(SubSeq(name, LetterPrefix(name) + 2, Len(name) - 5))

\* item[key] = value on a Python dict
SetKey(item, key, value) == (key :> value) @@ item

\* A datetime value of the clock.
DateTime(t) == [ticks |-> t]

\* date.strftime(DATE_STRING): the sub-second part is dropped.
serialized_date(date) == date.ticks \div TicksPerSecond

\* date_parser.parse(serialized_date)
parse_date(s) == DateTime(s * TicksPerSecond)

DateKeys == {"creation_date", "updating_date"}

\* What json.dumps cannot encode and Encoder.default does not know.
NotSerializable == "<object>"

\* The keys under which callers store their own data.
PayloadKeys == {"name"}

\* Whether json.dump(item, cls=Encoder) encodes every value of the item;
\* Encoder.default raises TypeError on what is no datetime.
Serializable(item) ==
    \A k \in DOMAIN item \cap PayloadKeys : item[k] # NotSerializable

\* json.dump(item, cls=self.json_encoder()): a datetime becomes its tagged object.
json_dump(item) ==
    [k \in DOMAIN item |->
        IF k \in DateKeys
        THEN [__datetime__ |-> TRUE, iso8601 |-> serialized_date(item[k])]
        ELSE item[k]]

\* json.load(inf, object_hook=self.json_decode)
json_load(doc) ==
    [k \in DOMAIN doc |->
        IF k \in DateKeys THEN parse_date(doc[k].iso8601) ELSE doc[k]]

\* ----------------------------------------------------------------- state

VARIABLES
    os_name,    \* os.name of the platform
    dirs,       \* the record directories under root_dir
    files,      \* <<id, name>> -> content: the files of the record directories
    temp_dir,   \* temp file name -> content: the files of root_dir/__temp
    clock,      \* the injected clock, in ticks: every reading is later than the last
    pc,         \* each caller's position
    call,       \* each caller's call in progress: its arguments and locals
    item,       \* each caller's record mapping (a Python dict)
    ncalls,     \* the calls started so far
    result,     \* each caller's last completed call and its outcome
    last_pub    \* for each id, the file published last in its directory

vars ==
    <<os_name, dirs, files, temp_dir, clock, pc, call, item, ncalls, result,
      last_pub>>

\* The contents of a file: nothing yet ("empty"), part of a document
\* ("partial") or all of it ("json").
Content(kind, doc) == [kind |-> kind, doc |-> doc]

NoDoc == [k \in {} |-> 0]

NoName == <<>>

\* A caller between calls.  Besides the arguments and locals of the call,
\* the record keeps what the properties need to know of its history:
\*   arg       the record as the caller passed it to put
\*   fresh     put: the record is the one this caller's get of the same id
\*             has just returned
\*   retry     get: it follows a put of this caller on the same id that
\*             raised ConcurrentModificationException; put: it is fresh from
\*             such a get and has the type tag of the put that lost
\*   lost      the file that lost put could not create
\*   seen_pub  the file published last in the id's directory when the get
\*             listed it
\*   quiet     put: at its publish step, nothing had been published in the
\*             id's directory since that listing
\*   floor     get: the greatest version the id's directory held when the
\*             get began
NoCall ==
    [op |-> "none", id |-> "", type_tag |-> NoName, version |-> 0,
     new_version_number |-> 0, new_version |-> NoName, now |-> 0,
     fp |-> <<>>, exc |-> "None", latest |-> NoName,
     dir_existed |-> FALSE, dst_existed |-> FALSE, at_publish |-> FALSE,
     linked |-> FALSE,
     arg |-> NoDoc, fresh |-> FALSE, retry |-> FALSE, lost |-> NoName,
     seen_pub |-> NoName, quiet |-> FALSE, floor |-> 0,
     todo |-> {}, yielded |-> {}]

\* A caller that has completed no call.
NoResult == [call |-> NoCall, outcome |-> "none", value |-> 0, exc |-> "None"]

Init ==
    /\ os_name \in OsNames
    /\ dirs = {"i1"}
    /\ files = [p \in {} |-> NoDoc]
    /\ temp_dir = [p \in {} |-> NoDoc]
    /\ clock = 0
    /\ pc = [w \in Writers |-> "idle"]
    /\ call = [w \in Writers |-> NoCall]
    /\ item = [w \in Writers |-> [name |-> "x"]]
    /\ ncalls = 0
    /\ result = [w \in Writers |-> NoResult]
    /\ last_pub = [id \in Ids |-> NoName]

\* A call ends: it returns value, or raises exc.
Complete(w, c, outcome, value, exc) ==
    /\ result' = [result EXCEPT ![w] =
            [call |-> [c EXCEPT !.now = 0, !.fp = <<>>, !.latest = NoName],
             outcome |-> outcome, value |-> value, exc |-> exc]]
    /\ pc' = [pc EXCEPT ![w] = "idle"]
    /\ call' = [call EXCEPT ![w] = NoCall]

Returns(w, c, value) == Complete(w, c, "returned", value, "None")

Raises(w, c, exc) == Complete(w, c, "raised", 0, exc)

\* ------------------------------------------------------- atomic file layer

\* A rename that replaces the file it finds at dst, as os.rename does on
\* posix.
LinkOverwrites(dst) == dst[1] \in dirs

\* os.link(src, dst), and os.rename(src, dst) on nt, succeed when the
\* directory of dst exists and no file has the name dst.
LinkSucceeds(dst) == dst[1] \in dirs /\ dst \notin DOMAIN files

\* Handlers that let no exception out of atomic_rename.
RenameSwallows(cause) == "None"

\* atomic_rename's handlers: NotImplementedError is raised again, every
\* other exception of the try block becomes FileAlreadyExistsException.
RenameError(cause) ==
    IF cause = "NotImplementedError" THEN "NotImplementedError"
    ELSE "FileAlreadyExistsException"

\* A finally that publishes whatever the body did.
ExitPublishesAlways(exc_info) == TRUE

\* open_new_file's finally: the temp file is published when the body that
\* wrote it raised nothing.
ExitPublishes(exc_info) == exc_info = "None"

\* Without key k.
Without(f, k) == [x \in DOMAIN f \ {k} |-> f[x]]

\* The records a caller builds itself: dict(name=..., version=...).
FreshRecords ==
    {[name |-> "x", version |-> v] : v \in ExplicitVersions}
        \cup {[name |-> NotSerializable, version |-> -1]}

\* ----------------------------------------------------------- DataStore.put

\* put's except clause: FileAlreadyExistsException becomes
\* ConcurrentModificationException, anything else passes through.
PutRaises(exc) ==
    IF exc = "FileAlreadyExistsException"
    THEN "ConcurrentModificationException" ELSE exc

\* The caller w passes put the record that its get of id has just returned.
FreshFromGet(w, id, it) ==
    /\ result[w].call.op = "get"
    /\ result[w].outcome = "returned"
    /\ result[w].call.id = id
    /\ it = item[w]

\* The file path names a version file of this type tag.
SameTag(type_tag, path) ==
    /\ path # NoName
    /\ ItemMatch(path[2])
    /\ path[2] = FormatName(type_tag, ItemVersion(path[2]))

\* put(type_tag, id, item) up to now = self.now().
put(w, type_tag, id, it) ==
    /\ pc[w] = "idle"
    /\ item' = [item EXCEPT ![w] = it]
    /\ UNCHANGED <<os_name, dirs, files, temp_dir, last_pub>>
    /\ IF "version" \notin DOMAIN it
       THEN /\ Raises(w, [NoCall EXCEPT !.op = "put", !.id = id,
                                        !.type_tag = type_tag], "KeyError")
            /\ UNCHANGED clock
       ELSE /\ clock' = clock + 1
            /\ call' = [call EXCEPT ![w] =
                  [NoCall EXCEPT
                     !.op = "put", !.id = id,
                     !.type_tag = type_tag,
                     !.version = it.version,
                     !.new_version_number = it.version + 1,
                     !.new_version = <<id, FormatName(type_tag, it.version + 1)>>,
                     !.now = clock,
                     !.arg = it,
                     !.fresh = FreshFromGet(w, id, it),
                     !.retry = /\ FreshFromGet(w, id, it)
                               /\ result[w].call.retry
                               /\ SameTag(type_tag, result[w].call.lost),
                     !.lost = IF FreshFromGet(w, id, it)
                              THEN result[w].call.lost ELSE NoName,
                     !.seen_pub = IF FreshFromGet(w, id, it)
                                  THEN result[w].call.seen_pub ELSE NoName]]
            /\ pc' = [pc EXCEPT ![w] = "mkstemp"]
            /\ UNCHANGED result

\* The name mkstemp gives the file it creates: a random name that no file
\* of the scratch directory has and no call in progress holds.  The caller
\* and the number of files it left behind stand for it.
NewTempName(w) ==
    <<w, Cardinality({fp \in DOMAIN temp_dir : fp[1] = w})>>

\* open_new_file: mkstemp(dir=self.temp_dir) creates an empty file under a
\* name no other file has.
mkstemp_creates(w) ==
    /\ pc[w] = "mkstemp"
    /\ UNCHANGED <<os_name, dirs, files, clock, item, ncalls, last_pub>>
    /\ LET fp == NewTempName(w)
       IN  /\ temp_dir' = (fp :> Content("empty", NoDoc)) @@ temp_dir
           /\ call' = [call EXCEPT ![w].fp = fp]
           /\ pc' = [pc EXCEPT ![w] = "body"]
           /\ UNCHANGED result

\* open_new_file: mkstemp fails (no space, no permission) and its OSError
\* leaves put.
mkstemp_fails(w) ==
    /\ pc[w] = "mkstemp"
    /\ UNCHANGED <<os_name, dirs, files, clock, item, ncalls, last_pub>>
    /\ Raises(w, call[w], "OSError")
    /\ UNCHANGED temp_dir

\* open_new_file: mkstemp(dir=self.temp_dir) creates the file, or fails.
mkstemp(w) == mkstemp_creates(w) \/ mkstemp_fails(w)

\* A body that sets creation_date on every put.
Restamped(it, new_version_number, now) ==
    SetKey(SetKey(it, "version", new_version_number),
           "creation_date", DateTime(now))

\* The item as put's body leaves it before json.dump.
Stamped(it, new_version_number, now) ==
    LET versioned == SetKey(it, "version", new_version_number)
    IN  IF "creation_date" \notin DOMAIN versioned
        THEN SetKey(versioned, "creation_date", DateTime(now))
        ELSE SetKey(versioned, "updating_date", DateTime(now))

\* Where open_new_file goes once its body is over and its file closed.
AfterBody(w, c) ==
    IF ExitPublishes(c.exc)
    THEN /\ pc' = [pc EXCEPT ![w] = "rename"]
         /\ call' = [call EXCEPT ![w] = c]
         /\ UNCHANGED result
    ELSE Raises(w, c, PutRaises(c.exc))

\* The body of put's with block, up to the close of the temp file: the
\* item is stamped and json.dump writes it.  json.dump raises TypeError on
\* what it cannot encode, and the file then holds what was written before;
\* otherwise the return statement leaves the block and the file holds the
\* whole document.
body(w) ==
    /\ pc[w] = "body"
    /\ UNCHANGED <<os_name, dirs, files, clock, ncalls, last_pub>>
    /\ LET c == call[w]
           it == Stamped(item[w], c.new_version_number, c.now)
       IN  /\ item' = [item EXCEPT ![w] = it]
           /\ IF ~Serializable(it)
              THEN /\ temp_dir' = [temp_dir EXCEPT ![c.fp] =
                                      Content("partial", NoDoc)]
                   /\ AfterBody(w, [c EXCEPT !.exc = "TypeError"])
              ELSE /\ temp_dir' = [temp_dir EXCEPT ![c.fp] =
                                      Content("json", json_dump(it))]
                   /\ AfterBody(w, c)

\* atomic_rename's try block: os.link on posix, os.rename on nt, and
\* NotImplementedError elsewhere.
rename(w) ==
    /\ pc[w] = "rename"
    /\ UNCHANGED <<os_name, dirs, clock, item, ncalls, result>>
    /\ LET c == [call[w] EXCEPT
                    !.at_publish = TRUE,
                    !.quiet = last_pub[call[w].id] = call[w].seen_pub,
                    !.dir_existed = call[w].id \in dirs,
                    !.dst_existed = call[w].new_version \in DOMAIN files]
           dst == c.new_version
       IN  IF os_name \notin {"posix", "nt"}
           THEN /\ call' = [call EXCEPT ![w] =
                              [c EXCEPT !.exc = RenameError("NotImplementedError")]]
                /\ pc' = [pc EXCEPT ![w] = "finally"]
                /\ UNCHANGED <<files, temp_dir, last_pub>>
           ELSE IF ~LinkSucceeds(dst)
           THEN /\ call' = [call EXCEPT ![w] =
                              [c EXCEPT !.exc = RenameError("OSError")]]
                /\ pc' = [pc EXCEPT ![w] = "finally"]
                /\ UNCHANGED <<files, temp_dir, last_pub>>
           ELSE /\ files' = (dst :> temp_dir[c.fp]) @@ files
                /\ last_pub' = [last_pub EXCEPT ![c.id] = dst]
                /\ call' = [call EXCEPT ![w] = [c EXCEPT !.linked = TRUE]]
                /\ IF os_name = "posix"
                   THEN /\ pc' = [pc EXCEPT ![w] = "unlink"]
                        /\ UNCHANGED temp_dir
                   ELSE /\ pc' = [pc EXCEPT ![w] = "finally"]
                        /\ temp_dir' = Without(temp_dir, c.fp)

\* os.unlink(src) after os.link(src, dst).
unlink(w) ==
    /\ pc[w] = "unlink"
    /\ temp_dir' = Without(temp_dir, call[w].fp)
    /\ pc' = [pc EXCEPT ![w] = "finally"]
    /\ UNCHANGED <<os_name, dirs, files, clock, call, item, ncalls, result,
                   last_pub>>

\* atomic_rename's finally removes a source that is still there; then put
\* returns new_version_number, or raises what atomic_rename raised.
finally(w) ==
    /\ pc[w] = "finally"
    /\ UNCHANGED <<os_name, dirs, files, clock, item, ncalls, last_pub>>
    /\ temp_dir' = Without(temp_dir, call[w].fp)
    /\ IF call[w].exc = "None"
       THEN Returns(w, call[w], call[w].new_version_number)
       ELSE Raises(w, call[w], PutRaises(call[w].exc))

\* ----------------------------------------------------------- DataStore.get

\* item_log(): the files of the id's directory whose name matches, with
\* the version each name carries.
item_log(id) ==
    {<<fp, ItemVersion(fp[2])>> :
        fp \in {p \in DOMAIN files : p[1] = id /\ ItemMatch(p[2])}}

RECURSIVE LexLeq(_, _)
\* The order of strings on strings of digits: "15" comes before "6".
LexLeq(a, b) ==
    IF a = <<>> THEN TRUE
    ELSE IF b = <<>> THEN FALSE
    ELSE IF a[1] = b[1] THEN LexLeq(Tail(a), Tail(b))
    ELSE DigitValue(a[1]) < DigitValue(b[1])

\* A choice of the entry whose digits come last in the order of strings.
LexLatestItems(entries) ==
    {e \in entries : \A o \in entries : LexLeq(DecNat(o[2]), DecNat(e[2]))}

\* A choice of the entry with the least version.
EarliestItems(entries) == {e \in entries : \A o \in entries : e[2] <= o[2]}

\* max(item_log(), key=lambda tuple: tuple[1]): one of the entries with the
\* greatest version (the first that os.listdir lists).
LatestItems(entries) == {e \in entries : \A o \in entries : o[2] <= e[2]}

\* A get whose except clause lets the exception through as it is.
get_reraises(cause) == cause

\* get's except clause: whatever the try block raised, get raises
\* DataStoreException.
get_raises(cause) == "DataStoreException"

\* The greatest of a set of version numbers, 0 for none.
Greatest(versions) ==
    IF versions = {} THEN 0
    ELSE CHOOSE v \in versions : \A o \in versions : o <= v

\* get(id) up to the choice of latest_item: os.listdir raises OSError on a
\* missing directory and max raises ValueError on an empty item_log, and
\* get wraps either in DataStoreException.
get(w, id) ==
    /\ pc[w] = "idle"
    /\ UNCHANGED <<os_name, dirs, files, temp_dir, clock, item, last_pub>>
    /\ LET lost_put == /\ result[w].call.op = "put"
                       /\ result[w].call.id = id
                       /\ result[w].exc = "ConcurrentModificationException"
           c == [NoCall EXCEPT
                    !.op = "get", !.id = id,
                    !.dir_existed = id \in dirs,
                    !.retry = lost_put,
                    !.lost = IF lost_put THEN result[w].call.new_version
                             ELSE NoName,
                    !.seen_pub = last_pub[id],
                    !.floor = Greatest({e[2] : e \in item_log(id)})]
       IN  IF id \notin dirs
           THEN Raises(w, c, get_raises("OSError"))
           ELSE IF item_log(id) = {}
           THEN Raises(w, c, get_raises("ValueError"))
           ELSE \E latest_item \in LatestItems(item_log(id)) :
                /\ call' = [call EXCEPT ![w] =
                              [c EXCEPT !.latest = latest_item[1],
                                        !.new_version_number = latest_item[2]]]
                /\ pc' = [pc EXCEPT ![w] = "get_read"]
                /\ UNCHANGED result

\* get(id) from open_for_reading on: the content is parsed and its version
\* replaced by the one of the file name.
get_read(w) ==
    /\ pc[w] = "get_read"
    /\ UNCHANGED <<os_name, dirs, files, temp_dir, clock, ncalls, last_pub>>
    /\ LET c == call[w]
       IN  IF c.latest \notin DOMAIN files
           THEN /\ Raises(w, c, get_raises("IOError"))
                /\ UNCHANGED item
           ELSE IF files[c.latest].kind # "json"
           THEN /\ Raises(w, c, get_raises("ValueError"))
                /\ UNCHANGED item
           ELSE /\ item' = [item EXCEPT ![w] =
                      SetKey(json_load(files[c.latest].doc), "version",
                             c.new_version_number)]
                /\ Returns(w, c, c.new_version_number)

\* ------------------------------------------------------- DataStore.all_ids

\* listdirs(): the directories of root_dir, the scratch directory that
\* DataStoreFS.__init__ created among them.
listdirs == dirs \cup {"__temp"}

\* basename in ['__temp']
Skipped(basename) == basename \in {"__temp"}

\* all_ids() up to the os.listdir of listdirs(), which the first next() of
\* the generator runs.
all_ids(w) ==
    /\ pc[w] = "idle"
    /\ call' = [call EXCEPT ![w] =
                  [NoCall EXCEPT !.op = "all_ids", !.todo = listdirs]]
    /\ pc' = [pc EXCEPT ![w] = "all_ids_next"]
    /\ UNCHANGED <<os_name, dirs, files, temp_dir, clock, item, result,
                   last_pub>>

\* The loop of all_ids takes the next directory, in the order of
\* os.listdir, which is any order: it skips __temp, and calls get on the
\* basename of any other.  What get raises leaves all_ids; the iteration
\* ends when no directory is left.  The step ends with get's choice of
\* latest_item.
all_ids_next(w) ==
    /\ pc[w] = "all_ids_next"
    /\ UNCHANGED <<os_name, dirs, files, temp_dir, clock, item, ncalls,
                   last_pub>>
    /\ IF call[w].todo = {}
       THEN Returns(w, call[w], 0)
       ELSE \E dn \in call[w].todo :
            LET c == [call[w] EXCEPT !.todo = @ \ {dn}, !.id = dn]
            IN  IF Skipped(dn)
                THEN /\ call' = [call EXCEPT ![w] = c]
                     /\ UNCHANGED <<pc, result>>
                ELSE IF dn \notin dirs
                THEN Raises(w, c, get_raises("OSError"))
                ELSE IF item_log(dn) = {}
                THEN Raises(w, c, get_raises("ValueError"))
                ELSE \E latest_item \in LatestItems(item_log(dn)) :
                     /\ call' = [call EXCEPT ![w] =
                            [c EXCEPT !.latest = latest_item[1],
                                      !.new_version_number = latest_item[2]]]
                     /\ pc' = [pc EXCEPT ![w] = "all_ids_read"]
                     /\ UNCHANGED result

\* The get of all_ids reads the file it chose; when it returns, all_ids
\* drops the record and yields the basename.
all_ids_read(w) ==
    /\ pc[w] = "all_ids_read"
    /\ UNCHANGED <<os_name, dirs, files, temp_dir, clock, item, ncalls,
                   last_pub>>
    /\ LET c == call[w]
       IN  IF c.latest \notin DOMAIN files
           THEN Raises(w, c, get_raises("IOError"))
           ELSE IF files[c.latest].kind # "json"
           THEN Raises(w, c, get_raises("ValueError"))
           ELSE /\ call' = [call EXCEPT ![w] =
                       [c EXCEPT !.yielded = @ \cup {c.id},
                                 !.latest = NoName]]
                /\ pc' = [pc EXCEPT ![w] = "all_ids_next"]
                /\ UNCHANGED result

\* ------------------------------------------------------------ the callers

\* One more of the calls the callers may start.
Started(max) == ncalls < max /\ ncalls' = ncalls + 1

\* The steps inside a call.
Step(w) ==
    \/ mkstemp(w)
    \/ body(w)
    \/ rename(w)
    \/ unlink(w)
    \/ finally(w)
    \/ get_read(w)

\* A caller passes put the record it holds or one it builds.
Next ==
    \E w \in Writers :
        \/ \E type_tag \in TypeTags, id \in Ids,
              it \in {item[w]} \cup FreshRecords :
                 Started(MaxCalls) /\ put(w, type_tag, id, it)
        \/ \E id \in Ids : Started(MaxCalls) /\ get(w, id)
        \/ Step(w)

Spec == Init /\ [][Next]_vars

\* ------------------------------------------- the readers of a store on disk

\* The type tag of the version files found in the store.
ItemTag == <<"i", "t", "e", "m">>

\* The versions that the files found in a record directory may have.
FoundVersions == {6, 15}

\* What the files found may hold: a document without a version field, or
\* with one that differs from the version of the file's name.
FoundDocs == {[name |-> "x"], [name |-> "x", version |-> 3]}

\* Names that do not match the pattern of version files.
Readme == <<"r", "e", "a", "d", "m", "e", ".", "t", "x", "t">>

NoTag == <<"-", "2", ".", "j", "s", "o", "n">>

\* The files someone else left in a record directory: a text, and a JSON
\* document under a name without type tag.
StrayFiles(id) ==
    (<<id, Readme>> :> Content("text", NoDoc))
        @@ (<<id, NoTag>> :> Content("json", [name |-> "x"]))

\* The function f on the keys in S.
Restrict(f, S) == [x \in S |-> f[x]]

\* The version files of id for the versions vs, all holding doc; when
\* broken, the one of the greatest version holds no JSON document.
FoundFiles(id, vs, doc, broken) ==
    [p \in {<<id, FormatName(ItemTag, v)>> : v \in vs} |->
        IF broken /\ p[2] = FormatName(ItemTag, Greatest(vs))
        THEN Content("text", NoDoc) ELSE Content("json", doc)]

\* A DataStore is opened on a root where record i1 has any of the version
\* files and of the stray files, and i2 has no directory, a directory of
\* stray files or a directory with a version file.
InitDir ==
    /\ os_name \in OsNames
    /\ \E vs \in SUBSET FoundVersions, doc \in FoundDocs, broken \in BOOLEAN,
          strays \in {{}, {Readme}, {Readme, NoTag}},
          other \in {"none", "strays", "item"}, v \in FoundVersions :
          /\ dirs = IF other = "none" THEN {"i1"} ELSE {"i1", "i2"}
          /\ files =
                FoundFiles("i1", vs, doc, broken)
                @@ Restrict(StrayFiles("i1"), {<<"i1", n>> : n \in strays})
                @@ (IF other = "strays" THEN StrayFiles("i2")
                    ELSE IF other = "item"
                    THEN FoundFiles("i2", {v}, doc, FALSE)
                    ELSE [p \in {} |-> NoDoc])
    /\ temp_dir = [p \in {} |-> NoDoc]
    /\ clock = 0
    /\ pc = [w \in Writers |-> "idle"]
    /\ call = [w \in Writers |-> NoCall]
    /\ item = [w \in Writers |-> [name |-> "x"]]
    /\ ncalls = 0
    /\ result = [w \in Writers |-> NoResult]
    /\ last_pub = [id \in Ids |-> NoName]

\* The callers read: they get a record, or iterate all_ids to its end.
NextDir ==
    \E w \in Writers :
        \/ \E id \in Ids : Started(MaxCalls) /\ get(w, id)
        \/ get_read(w)
        \/ Started(MaxCalls) /\ all_ids(w)
        \/ all_ids_next(w)
        \/ all_ids_read(w)

SpecDir == InitDir /\ [][NextDir]_vars

\* ---------------------------------------- the callers that get, then put

\* The type tag and the id of the callers that work on one record.
RetryTag == <<"a">>

RetryId == "i1"


\* The calls that the callers of the cycles start.
MaxCycleCalls == 7

\* The record a caller builds for the first put of an id: it has no
\* creation_date.
FirstRecord == [name |-> "x", version |-> -1]

\* A caller that has got nothing yet puts the first version of the record.
CycleFirstPut(w) ==
    /\ \/ result[w].outcome = "none"
       \/ result[w].call.op = "get" /\ result[w].outcome = "raised"
    /\ Started(MaxCycleCalls)
    /\ put(w, RetryTag, RetryId, FirstRecord)

\* A cycle starts with a get.
CycleGet(w) ==
    /\ result[w].call.op # "get"
    /\ Started(MaxCycleCalls)
    /\ get(w, RetryId)

\* A cycle ends with the put of the record that get returned.
CyclePut(w) ==
    /\ FreshFromGet(w, RetryId, item[w])
    /\ Started(MaxCycleCalls)
    /\ put(w, RetryTag, RetryId, item[w])

NextCycle ==
    \E w \in Writers :
        \/ CycleFirstPut(w)
        \/ CycleGet(w)
        \/ CyclePut(w)
        \/ Step(w)

SpecCycle == Init /\ [][NextCycle]_vars

\* ------------------------------------------------- the callers that retry

\* The writers of one record: each of them loops, get then put, until its
\* put returns, and tries again only on ConcurrentModificationException.
RetryWriters == {"w1", "w2", "w3"}

\* The version the record has when they start.
InitialVersions == {0, 9}

\* The version file that a put of a record of version v - 1, with
\* self.now() = now, publishes.
PublishedFile(v, now) ==
    Content("json", json_dump(Stamped([name |-> "x", version |-> v - 1], v, now)))

\* The record exists at version V, published at time 0.
InitRetry ==
    /\ os_name \in OsNames
    /\ dirs = {RetryId}
    /\ \E V \in InitialVersions :
          /\ files = (<<RetryId, FormatName(RetryTag, V)>> :> PublishedFile(V, 0))
          /\ last_pub = [id \in Ids |->
                IF id = RetryId THEN <<RetryId, FormatName(RetryTag, V)>>
                ELSE NoName]
    /\ temp_dir = [p \in {} |-> NoDoc]
    /\ clock = 1
    /\ pc = [w \in RetryWriters |-> "idle"]
    /\ call = [w \in RetryWriters |-> NoCall]
    /\ item = [w \in RetryWriters |-> [name |-> "x"]]
    /\ ncalls = 0
    /\ result = [w \in RetryWriters |-> NoResult]

\* The loop starts with a get, and goes back to it when put has raised
\* ConcurrentModificationException.
RetryGet(w) ==
    /\ \/ result[w].outcome = "none"
       \/ /\ result[w].call.op = "put"
          /\ result[w].exc = "ConcurrentModificationException"
    /\ UNCHANGED ncalls
    /\ get(w, RetryId)

\* The loop puts the record that get returned.
RetryPut(w) ==
    /\ FreshFromGet(w, RetryId, item[w])
    /\ UNCHANGED ncalls
    /\ put(w, RetryTag, RetryId, item[w])

\* The steps inside a call when no I/O fails.
RetryStep(w) ==
    \/ mkstemp_creates(w)
    \/ body(w)
    \/ rename(w)
    \/ unlink(w)
    \/ finally(w)
    \/ get_read(w)

RetryLoop(w) == RetryGet(w) \/ RetryPut(w) \/ RetryStep(w)

NextRetry == \E w \in RetryWriters : RetryLoop(w)

SpecRetry == InitRetry /\ [][NextRetry]_vars

\* Every writer is a thread or a process of its own, which the scheduler
\* runs again and again as long as it has a step to take.
SpecRetryFair ==
    SpecRetry /\ \A w \in RetryWriters : WF_vars(RetryLoop(w))

\* ------------------------------------------------------------- properties

\* The last completed call of w is a put.
PutDone(w) == result[w].call.op = "put"

\* The last completed call of w is a put that returned.
PutReturned(w) == PutDone(w) /\ result[w].outcome = "returned"

\* The last completed call of w is a put that raised exc.
PutRaised(w, exc) ==
    PutDone(w) /\ result[w].outcome = "raised" /\ result[w].exc = exc

\* Two callers whose last puts reached the publish step for the same file
\* of an existing record directory, the file being absent when the first of
\* them got there.
Raced(w1, w2) ==
    /\ w1 # w2
    /\ PutDone(w1) /\ PutDone(w2)
    /\ result[w1].call.at_publish /\ result[w2].call.at_publish
    /\ result[w1].call.new_version = result[w2].call.new_version
    /\ result[w1].call.version = result[w2].call.version
    /\ result[w1].call.dir_existed
    /\ ~(result[w1].call.dst_existed /\ result[w2].call.dst_existed)

C2_OneFilePerVersion ==
    \A p, q \in DOMAIN files :
        /\ p[1] = q[1]
        /\ ItemMatch(p[2]) /\ ItemMatch(q[2])
        /\ ItemVersion(p[2]) = ItemVersion(q[2])
        => p = q

\* C3: the first put for an id without a record directory, with a record of
\* version -1, creates the directory, publishes <type_tag>-0.json and
\* returns 0.
C3_FirstPutCreatesDirectory ==
    \A w \in Writers :
        /\ PutDone(w)
        /\ result[w].call.at_publish
        /\ ~result[w].call.dir_existed
        /\ result[w].call.version = -1
        => /\ PutReturned(w)
           /\ result[w].value = 0
           /\ result[w].call.id \in dirs
           /\ result[w].call.new_version \in DOMAIN files

\* What get(id) does when no other call runs between its steps: it fails,
\* or it returns this version.
GetFails(id) == id \notin dirs \/ item_log(id) = {}

GetVersions(id) == {e[2] : e \in LatestItems(item_log(id))}

\* C4: after a put returned v, and as long as nothing else was published in
\* the id's directory since that put published, get(id) returns a record of
\* version v.
C4_GetAfterPut ==
    \A w \in Writers :
        /\ PutReturned(w)
        /\ last_pub[result[w].call.id] = result[w].call.new_version
        => /\ ~GetFails(result[w].call.id)
           /\ GetVersions(result[w].call.id) = {result[w].value}

\* C5: a put publishes a version number greater than every version number
\* its id's directory holds at that moment.
C5_VersionsIncrease ==
    [][\A w \in Writers :
          pc[w] = "rename" /\ call'[w].linked
          => \A e \in item_log(call[w].id) :
                 e[2] < call[w].new_version_number]_vars

\* C6: when no call is in progress, the scratch directory holds no file.
C6_ScratchEmpty ==
    (\A w \in Writers : pc[w] = "idle") => DOMAIN temp_dir = {}

\* C7: a put raises ConcurrentModificationException only if a file had the
\* name of its destination at its publish step.
C7_ConflictOnlyIfExists ==
    \A w \in Writers :
        PutRaised(w, "ConcurrentModificationException")
        => result[w].call.dst_existed

\* C8: a put that fails raises ConcurrentModificationException or
\* DataStoreException, and nothing else.
C8_PutRaisesStoreErrors ==
    \A w \in Writers :
        PutDone(w) /\ result[w].outcome = "raised"
        => result[w].exc \in
              {"ConcurrentModificationException", "DataStoreException"}

\* The calls, completed or in progress, whose body raised.
BodyRaised(c) == c.op = "put" /\ c.exc = "TypeError"

\* C9: at every moment every file of a record directory holds a whole
\* document, written by a body that raised nothing, with the version its
\* name carries; a call whose body raised has published nothing.
C9_NoPartialFile ==
    /\ \A p \in DOMAIN files :
          /\ files[p].kind = "json"
          /\ ItemMatch(p[2]) => files[p].doc.version = ItemVersion(p[2])
    /\ \A w \in Writers :
          /\ BodyRaised(call[w]) => ~call[w].linked
          /\ BodyRaised(result[w].call) => ~result[w].call.linked

\* A body raised and left part of a document in the scratch directory, and
\* its destination has no file, while another put has published one.
C9_Witness ==
    \E w \in Writers :
        /\ PutRaised(w, "TypeError")
        /\ result[w].call.new_version \notin DOMAIN files
        /\ \E fp \in DOMAIN temp_dir : temp_dir[fp].kind = "partial"
        /\ DOMAIN files # {}

\* C10: a file of a record directory keeps its content for ever, and an
\* atomic_rename onto it raises FileAlreadyExistsException.
C10_PublishedIsImmutable ==
    [][/\ \A p \in DOMAIN files :
             p \in DOMAIN files' /\ files'[p] = files[p]
       /\ \A w \in Writers :
             /\ pc[w] = "rename"
             /\ pc'[w] # "rename"
             /\ call[w].new_version \in DOMAIN files
             => call'[w].exc = "FileAlreadyExistsException"]_vars

\* An atomic_rename found its destination taken, raised, and the file is
\* still there.
C10_Witness ==
    \E w \in Writers :
        /\ pc[w] = "finally"
        /\ call[w].dst_existed
        /\ call[w].exc = "FileAlreadyExistsException"
        /\ call[w].new_version \in DOMAIN files

\* The last completed call of w is the put of a retry: w's put before it
\* raised ConcurrentModificationException, w then got the record again and
\* put what it got under the same type tag, and nothing was published in
\* the id's directory between the listing of that get and the publish step
\* of this put.
RetriedQuietly(w) ==
    /\ PutDone(w)
    /\ result[w].call.retry
    /\ result[w].call.at_publish
    /\ result[w].call.quiet

\* The version of the file that the put before the retry lost to.
WinnerVersion(w) == ItemVersion(result[w].call.lost[2])

GetReturned(w) ==
    /\ result[w].call.op = "get"
    /\ result[w].outcome = "returned"
    /\ pc[w] = "idle"

\* The versions of the version files found in the directory of id.
VersionsFound(id) ==
    {v \in FoundVersions : <<id, FormatName(ItemTag, v)>> \in DOMAIN files}

\* C12: get(id) returns the content of the version file whose number is
\* the greatest as a number, 15 before 6, whatever other files the
\* directory holds, with that number as its version field, whatever
\* version the content has.
C12_GetReadsGreatest ==
    \A w \in DOMAIN result :
        GetReturned(w) =>
            LET id == result[w].call.id
                v == Greatest(VersionsFound(id))
            IN  /\ VersionsFound(id) # {}
                /\ result[w].value = v
                /\ item[w] =
                      [name |-> files[<<id, FormatName(ItemTag, v)>>].doc.name,
                       version |-> v]

\* A get returned version 15 from a directory that holds item-6.json, a
\* readme.txt and a JSON file without type tag, the content of
\* item-15.json saying version 3.
C12_Witness ==
    \E w \in DOMAIN result :
        /\ GetReturned(w)
        /\ result[w].call.id = "i1"
        /\ VersionsFound("i1") = {6, 15}
        /\ {<<"i1", Readme>>, <<"i1", NoTag>>} \subseteq DOMAIN files
        /\ files[<<"i1", FormatName(ItemTag, 15)>>].doc = [name |-> "x", version |-> 3]
        /\ item[w] = [name |-> "x", version |-> 15]

\* The last completed call of w is a get.
GetDone(w) == result[w].call.op = "get"

\* The version file of id with the greatest number holds no JSON document.
LatestBroken(id) ==
    /\ VersionsFound(id) # {}
    /\ files[<<id, FormatName(ItemTag, Greatest(VersionsFound(id)))>>].kind
          # "json"

\* C13: a get that fails raises DataStoreException and nothing else; and
\* get fails, returning no record, for an id without a directory, for a
\* directory without version file, and for a version file that cannot be
\* parsed.
C13_GetRaisesDataStoreException ==
    \A w \in DOMAIN result :
        GetDone(w) =>
            LET id == result[w].call.id
            IN  /\ result[w].outcome \in {"returned", "raised"}
                /\ result[w].outcome = "raised"
                      => result[w].exc = "DataStoreException"
                /\ id \notin dirs \/ VersionsFound(id) = {} \/ LatestBroken(id)
                      => result[w].outcome = "raised"

\* One get failed on an id that was never written, another on a
\* directory that holds nothing but stray files.
C13_Witness ==
    \E w1, w2 \in DOMAIN result :
        /\ GetDone(w1) /\ GetDone(w2)
        /\ result[w1].call.id = "i2" /\ "i2" \notin dirs
        /\ result[w1].exc = "DataStoreException"
        /\ result[w2].call.id = "i1"
        /\ {<<"i1", Readme>>, <<"i1", NoTag>>} = DOMAIN files
        /\ result[w2].exc = "DataStoreException"

\* The last completed call of w is an iteration of all_ids, which ended or
\* raised.
AllIdsDone(w) == result[w].call.op = "all_ids"

\* C14: when every version file can be read, an iteration of all_ids ends
\* without error, having yielded the ids that have a version file and
\* skipped the directories that have none.
C14_AllIdsSkipsInvalid ==
    \A w \in DOMAIN result :
        /\ AllIdsDone(w)
        /\ \A id \in dirs : ~LatestBroken(id)
        => /\ result[w].outcome = "returned"
           /\ result[w].call.yielded = {id \in dirs : VersionsFound(id) # {}}

\* What a version file holds for the date of a put whose self.now() was
\* now.
Stored(now) ==
    [__datetime__ |-> TRUE, iso8601 |-> serialized_date(DateTime(now))]

\* C15: in cycles of get then put that start from a record without
\* creation_date, the put of that record publishes a file with
\* creation_date = now and no updating_date, and every put of a record
\* that has one publishes a file with updating_date = now and with the
\* creation_date of every file the directory holds already.
C15_CreationDateKept ==
    [][\A w \in DOMAIN call :
          pc[w] = "rename" /\ call'[w].linked =>
             LET c == call[w]
                 doc == files'[c.new_version].doc
             IN  IF "creation_date" \notin DOMAIN c.arg
                 THEN /\ doc.creation_date = Stored(c.now)
                      /\ "updating_date" \notin DOMAIN doc
                 ELSE /\ "updating_date" \in DOMAIN doc
                      /\ doc.updating_date = Stored(c.now)
                      /\ \A p \in DOMAIN files :
                            p[1] = c.id =>
                               files[p].doc.creation_date = doc.creation_date
      ]_vars

\* The record has three versions, the first without updating_date, the
\* last updated in a later second than the one it was created in.
C15_Witness ==
    /\ {<<RetryId, FormatName(RetryTag, v)>> : v \in 0..2} \subseteq DOMAIN files
    /\ "updating_date" \notin DOMAIN files[<<RetryId, FormatName(RetryTag, 0)>>].doc
    /\ LET doc == files[<<RetryId, FormatName(RetryTag, 2)>>].doc
       IN  doc.updating_date # doc.creation_date

\* The ids that the iterations of all_ids, ended or in progress, yielded.
Yielded(w) == call[w].yielded \cup result[w].call.yielded

\* C16: all_ids yields neither __temp nor a directory that holds stray
\* files only: what it yields is a record directory with a version file,
\* the greatest of which can be read, as get asks.
C16_AllIdsYieldsRecords ==
    \A w \in DOMAIN result :
        \A id \in Yielded(w) :
            /\ id # "__temp"
            /\ id \in dirs
            /\ \E p \in DOMAIN files : p[1] = id /\ p[2] \notin {Readme, NoTag}
            /\ VersionsFound(id) # {}
            /\ ~LatestBroken(id)

\* An iteration ended after it yielded both ids, the directory of i1
\* holding stray files beside its version files.
C16_Witness ==
    \E w \in DOMAIN result :
        /\ AllIdsDone(w)
        /\ result[w].outcome = "returned"
        /\ result[w].call.yielded = {"i1", "i2"}
        /\ {<<"i1", Readme>>, <<"i1", NoTag>>} \subseteq DOMAIN files

C18_RecordUnchangedOnConflict ==
    \A w \in DOMAIN result :
        /\ pc[w] = "idle"
        /\ PutRaised(w, "ConcurrentModificationException")
        /\ result[w].call.dst_existed
        => item[w] = result[w].call.arg

\* C19: a get that returns while puts run on the same id returns the
\* whole document of one published version file, under the version of
\* that file, which is at least the greatest version the directory held
\* when the get began.
C19_GetReturnsPublished ==
    \A w \in DOMAIN result :
        GetReturned(w) =>
            /\ \E p \in DOMAIN files :
                  /\ p[1] = result[w].call.id
                  /\ files[p].kind = "json"
                  /\ files[p].doc.version = result[w].value
                  /\ p[2] = FormatName(RetryTag, result[w].value)
                  /\ item[w] = json_load(files[p].doc)
            /\ result[w].value >= result[w].call.floor

\* A get returned a version that was the greatest when it began; since
\* its listing a put has published a greater one, and another put has
\* its document in the scratch directory.
C19_Witness ==
    \E w \in DOMAIN result :
        /\ GetReturned(w)
        /\ result[w].value = result[w].call.floor
        /\ result[w].call.seen_pub # last_pub[RetryId]
        /\ result[w].value < Greatest({e[2] : e \in item_log(RetryId)})
        /\ \E fp \in DOMAIN temp_dir : temp_dir[fp].kind = "json"

\* The version V the record had before the writers started: the least of
\* its directory, where nothing is ever removed.
FirstVersion ==
    CHOOSE v \in {e[2] : e \in item_log(RetryId)} :
        \A e \in item_log(RetryId) : v <= e[2]

\* Every writer of the retry loop is done: its put returned, the versions
\* returned are V+1 .. V+K, one for each writer, and the record is at
\* version V+K.
RetryDone ==
    LET K == Cardinality(RetryWriters)
        V == FirstVersion
    IN  /\ \A w \in RetryWriters : pc[w] = "idle" /\ PutReturned(w)
        /\ {result[w].value : w \in RetryWriters} = (V + 1)..(V + K)
        /\ \A w1, w2 \in RetryWriters :
              result[w1].value = result[w2].value => w1 = w2
        /\ GetVersions(RetryId) = {V + K}

\* C20: when K writers of one record at version V, of one type tag, each
\* loop get then put until put returns, every execution that is weakly
\* fair to each writer ends with all of them done, the versions returned
\* being V+1 .. V+K and the record at version V+K.
C20_RetryTerminates == <>[]RetryDone

\* The three writers are done, two of them after a put that lost.
C20_Witness ==
    /\ RetryDone
    /\ \E w1, w2 \in RetryWriters :
          w1 # w2 /\ result[w1].call.retry /\ result[w2].call.retry
====
